---- MODULE Spec2Model ----
(***************************************************************************)
(* Model of extras/blender_export_buf.py: the BUF exporter.                *)
(*                                                                         *)
(* ExportBUF.execute calls export_buf_format, which walks the faces and    *)
(* loops of the active mesh object, duplicates the vertex attributes per   *)
(* face corner and dumps the resulting document to the destination file.   *)
(* The local variables of export_buf_format are state variables here; the  *)
(* program counter pc walks through the function one loop iteration at a   *)
(* time.  Coordinates are integers; the world matrices are monomial, so    *)
(* that column normalisation stays inside the integers.                    *)
(***************************************************************************)
EXTENDS Integers, Sequences, FiniteSets, TLC

\* ------------------------------------------------------------------ bounds
MaxFaces == 2
MaxLoops == 5
NumVerts == MaxLoops + 1

\* ------------------------------------------------------------- mathutils
Abs(x) == IF x < 0 THEN -x ELSE x

Dot(r, v) == r[1] * v[1] + r[2] * v[2] + r[3] * v[3]

\* 3x3 matrix (tuple of rows) times vector
MatVec(m, v) == << Dot(m[1], v), Dot(m[2], v), Dot(m[3], v) >>

VecAdd(a, b) == << a[1] + b[1], a[2] + b[2], a[3] + b[3] >>

\* Matrix.normalized(): every column divided by its length.  The columns of
\* the matrices used here have one non-zero entry, whose absolute value is
\* the length of the column.
ColLen(m, c) == Abs(m[1][c]) + Abs(m[2][c]) + Abs(m[3][c])

Normalized(m) ==
    [r \in 1..3 |-> [c \in 1..3 |-> m[r][c] \div ColLen(m, c)]]

\* Matrix.to_3x3(): the linear part of the 4x4 world matrix
To3x3(mw) == mw.lin

\* 4x4 matrix @ 3-vector: linear part plus translation
Mat4Vec(mw, v) == VecAdd(MatVec(mw.lin, v), mw.trans)

\* ---------------------------------------------------------------- inputs
ScaleMove == [lin   |-> << <<2, 0, 0>>, <<0, 2, 0>>, <<0, 0, 2>> >>,
              trans |-> <<1, 0, -1>>]

RotZScale == [lin   |-> << <<0, -3, 0>>, <<3, 0, 0>>, <<0, 0, 1>> >>,
              trans |-> <<0, 2, 0>>]

Transforms == {ScaleMove, RotZScale}

\* bm.verts: vertex v sits on a grid point and carries a smoothed normal
Vert(v) == [index  |-> v - 1,
            co     |-> <<v % 3, v \div 3, 0>>,
            normal |-> IF v % 2 = 0 THEN <<0, 1, 0>> ELSE <<0, -1, 0>>]

FaceNormals == { <<0, 0, 1>>, <<1, 0, 0>> }

\* a face of n corners (a polygon has at least 3) running over consecutive
\* vertices from vertex s on
MakeFace(s, n, nrm) ==
    [loops  |-> [l \in 1..n |->
                   [vert |-> Vert(((s + l - 2) % NumVerts) + 1),
                    uv   |-> <<l, s + l>>]],
     normal |-> nrm]

Shapes == [n : 3..MaxLoops, normal : FaceNormals]

SeqsUpTo(S, n) == UNION { [1..k -> S] : k \in 0..n }

\* a strip: face k starts two vertices after face k-1, so that neighbouring
\* faces share vertices (a quad 1234 and a triangle 345 share the edge 34)
Strip(shapes) ==
    [k \in 1..Len(shapes) |->
        MakeFace(2 * k - 1, shapes[k].n, shapes[k].normal)]

Meshes == { [faces |-> Strip(sh), uv_active |-> u] :
              sh \in SeqsUpTo(Shapes, MaxFaces), u \in BOOLEAN }

EmptyMesh == [faces |-> <<>>, uv_active |-> FALSE]

NoObject == [present |-> FALSE, type |-> "NONE", name |-> "",
             data |-> EmptyMesh, matrix_world |-> ScaleMove]

CameraObject == [present |-> TRUE, type |-> "CAMERA", name |-> "Camera",
                 data |-> EmptyMesh, matrix_world |-> ScaleMove]

MeshObjects == { [present |-> TRUE, type |-> "MESH", name |-> "Mesh",
                  data |-> m, matrix_world |-> t] :
                    m \in Meshes, t \in Transforms }

Objects == {NoObject, CameraObject} \cup MeshObjects

\* ----------------------------------------------------------------- files
Absent  == [kind |-> "absent"]
OldFile == [kind |-> "old"]
Partial == [kind |-> "partial"]
Written(doc) == [kind |-> "doc", data |-> doc]

NoDoc == [format |-> "none"]
NoBM  == [state |-> "none", faces |-> <<>>, uv_active |-> FALSE]

SelectMsg == "Please select a mesh object"
IOMsg     == "I/O error"

VARIABLES
    context,        \* context.active_object
    file,           \* content of the file at self.filepath
    prevFile,       \* content of that file when execute was last called
    pc,             \* position in execute / export_buf_format
    bm,             \* the bmesh working copy
    vertices, normals, uvs, vertex_index, face_data, face_verts,
    fi, li,         \* position of the two for loops
    buf_data,       \* the document
    exc,            \* message of the exception in flight
    result,         \* return value of the last execute
    reports         \* self.report calls of the last execute

vars == << context, file, prevFile, pc, bm, vertices, normals, uvs,
           vertex_index, face_data, face_verts, fi, li, buf_data, exc,
           result, reports >>

locals == << bm, vertices, normals, uvs, vertex_index, face_data,
             face_verts, fi, li, buf_data >>

\* ------------------------------------------------- expressions of the code
InvalidSelectionMeshOnly(obj) == ~obj.present

InvalidSelection(obj) == ~obj.present \/ obj.type # "MESH"

use_smooth_shading == FALSE

use_flat_shading == TRUE

WorldPosNoTranslation(obj, vert) == MatVec(To3x3(obj.matrix_world), vert.co)

WorldPos(obj, vert) == Mat4Vec(obj.matrix_world, vert.co)

WorldNormal(obj, face, vert) ==
    IF use_flat_shading
    THEN MatVec(Normalized(To3x3(obj.matrix_world)), face.normal)
    ELSE MatVec(Normalized(To3x3(obj.matrix_world)), vert.normal)

LoopUVShort(uv_layer, loop) == IF uv_layer THEN loop.uv ELSE <<0>>

LoopUV(uv_layer, loop) == IF uv_layer THEN loop.uv ELSE <<0, 0>>

CornerIndexOfVert(index, loop) == loop.vert.index

CornerIndex(index, loop) == index

FaceTypeSwapped(verts) == IF Len(verts) = 3 THEN "quad" ELSE "triangle"

FaceType(verts) == IF Len(verts) = 4 THEN "quad" ELSE "triangle"

FaceInfo(verts) == [vertices |-> verts, type |-> FaceType(verts)]

CountType(fd, t) == Cardinality({ k \in 1..Len(fd) : fd[k].type = t })

Attribute(array, size, count) ==
    [array |-> array, itemSize |-> size, count |-> count]

Attributes(vs, ns, us, count) ==
    [k \in (IF Len(us) > 0 THEN {"position", "normal", "uv"}
                           ELSE {"position", "normal"}) |->
        CASE k = "position" -> Attribute(vs, 3, count)
          [] k = "normal"   -> Attribute(ns, 3, count)
          [] k = "uv"       -> Attribute(us, 2, count)]

BufData(obj, b, index, vs, ns, us, fd) ==
    [format     |-> "buf",
     version    |-> "1.0",
     metadata   |-> [generator      |-> "Blender BUF Exporter",
                     object_name    |-> obj.name,
                     vertex_count   |-> index,
                     face_count     |-> Len(b.faces),
                     quad_count     |-> CountType(fd, "quad"),
                     triangle_count |-> CountType(fd, "triangle"),
                     shading        |-> IF use_flat_shading THEN "flat"
                                                            ELSE "smooth"],
     attributes |-> Attributes(vs, ns, us, index),
     faces      |-> fd]

\* ------------------------------------------------------------------- Init
LocalsUnbound ==
    /\ bm = NoBM
    /\ vertices = <<>> /\ normals = <<>> /\ uvs = <<>>
    /\ vertex_index = 0
    /\ face_data = <<>> /\ face_verts = <<>>
    /\ fi = 0 /\ li = 0
    /\ buf_data = NoDoc

Init ==
    /\ context \in [active_object : Objects]
    /\ file \in {Absent, OldFile}
    /\ prevFile = file
    /\ pc = "idle"
    /\ LocalsUnbound
    /\ exc = ""
    /\ result = "NONE"
    /\ reports = <<>>

\* ---------------------------------------------------------------- actions
\* the frame of export_buf_format is dropped when it returns or raises
DropLocals ==
    /\ bm' = IF bm.state = "none" THEN bm ELSE NoBM
    /\ vertices' = <<>> /\ normals' = <<>> /\ uvs' = <<>>
    /\ vertex_index' = 0
    /\ face_data' = <<>> /\ face_verts' = <<>>
    /\ fi' = 0 /\ li' = 0
    /\ buf_data' = NoDoc

\* execute: try: export_buf_format(self.filepath, context), up to the check
\* of the active object
Execute ==
    /\ pc = "idle"
    /\ prevFile' = file
    /\ reports' = <<>>
    /\ result' = "NONE"
    /\ IF InvalidSelection(context.active_object)
       THEN /\ exc' = SelectMsg
            /\ pc' = "except"
       ELSE /\ exc' = ""
            /\ pc' = "prepare"
    /\ UNCHANGED << context, file, locals >>

\* bmesh.new(), from_mesh, and the empty output lists
Prepare ==
    /\ pc = "prepare"
    /\ bm' = [state |-> "alive",
              faces |-> context.active_object.data.faces,
              uv_active |-> context.active_object.data.uv_active]
    /\ vertices' = <<>> /\ normals' = <<>> /\ uvs' = <<>>
    /\ vertex_index' = 0
    /\ face_data' = <<>> /\ face_verts' = <<>>
    /\ fi' = 1 /\ li' = 0
    /\ pc' = "faces"
    /\ UNCHANGED << context, file, prevFile, buf_data, exc, result, reports >>

\* for face in bm.faces: face_verts = []
FaceBegin ==
    /\ pc = "faces"
    /\ fi <= Len(bm.faces)
    /\ face_verts' = <<>>
    /\ li' = 1
    /\ pc' = "loops"
    /\ UNCHANGED << context, file, prevFile, bm, vertices, normals, uvs,
                    vertex_index, face_data, fi, buf_data, exc, result,
                    reports >>

\* one iteration of: for loop in face.loops
Corner ==
    /\ pc = "loops"
    /\ li <= Len(bm.faces[fi].loops)
    /\ LET obj  == context.active_object
           face == bm.faces[fi]
           loop == face.loops[li]
           vert == loop.vert
       IN  /\ vertices' = vertices \o WorldPos(obj, vert)
           /\ normals' = normals \o WorldNormal(obj, face, vert)
           /\ uvs' = uvs \o LoopUV(bm.uv_active, loop)
           /\ face_verts' = Append(face_verts, CornerIndex(vertex_index, loop))
           /\ vertex_index' = vertex_index + 1
    /\ li' = li + 1
    /\ UNCHANGED << context, file, prevFile, pc, bm, face_data, fi, buf_data,
                    exc, result, reports >>

\* face_info = {...}; face_data.append(face_info)
FaceEnd ==
    /\ pc = "loops"
    /\ li > Len(bm.faces[fi].loops)
    /\ face_data' = Append(face_data, FaceInfo(face_verts))
    /\ fi' = fi + 1
    /\ pc' = "faces"
    /\ UNCHANGED << context, file, prevFile, bm, vertices, normals, uvs,
                    vertex_index, face_verts, li, buf_data, exc, result,
                    reports >>

\* buf_data = {...}; the uv attribute; bm.free()
Assemble ==
    /\ pc = "faces"
    /\ fi > Len(bm.faces)
    /\ buf_data' = BufData(context.active_object, bm, vertex_index,
                           vertices, normals, uvs, face_data)
    /\ bm' = [bm EXCEPT !.state = "freed"]
    /\ pc' = "write"
    /\ UNCHANGED << context, file, prevFile, vertices, normals, uvs,
                    vertex_index, face_data, face_verts, fi, li, exc, result,
                    reports >>

\* the file opened with mode 'a': the document lands behind the old content
WriteFileAppend ==
    /\ pc = "write"
    /\ file' = IF file.kind \in {"absent"} THEN Written(buf_data)
                                           ELSE [kind |-> "concat"]
    /\ DropLocals
    /\ pc' = "returned"
    /\ UNCHANGED << context, prevFile, exc, result, reports >>

\* with open(filepath, 'w') as f: json.dump(...); the prints; return
WriteFile ==
    /\ pc = "write"
    /\ file' = Written(buf_data)
    /\ DropLocals
    /\ pc' = "returned"
    /\ UNCHANGED << context, prevFile, exc, result, reports >>

\* open(filepath, 'w') raises: the file is not touched
OpenFails ==
    /\ pc = "write"
    /\ exc' = IOMsg
    /\ DropLocals
    /\ pc' = "except"
    /\ UNCHANGED << context, file, prevFile, result, reports >>

\* json.dump raises after open truncated the file
DumpFails ==
    /\ pc = "write"
    /\ file' = Partial
    /\ exc' = IOMsg
    /\ DropLocals
    /\ pc' = "except"
    /\ UNCHANGED << context, prevFile, result, reports >>

\* self.report({'INFO'}, ...); return {'FINISHED'}
ReportSuccess ==
    /\ pc = "returned"
    /\ reports' = Append(reports, [level |-> "INFO",
                                   text  |-> "Successfully exported to",
                                   arg   |-> "filepath"])
    /\ result' = "FINISHED"
    /\ pc' = "idle"
    /\ UNCHANGED << context, file, prevFile, locals, exc >>

\* an except handler that still reports success
ReportErrorFinished ==
    /\ pc = "except"
    /\ reports' = Append(reports, [level |-> "INFO",
                                   text  |-> "Successfully exported to",
                                   arg   |-> "filepath"])
    /\ result' = "FINISHED"
    /\ exc' = ""
    /\ pc' = "idle"
    /\ UNCHANGED << context, file, prevFile, locals >>

\* except Exception as e: self.report({'ERROR'}, ...); return {'CANCELLED'}
ReportError ==
    /\ pc = "except"
    /\ reports' = Append(reports, [level |-> "ERROR",
                                   text  |-> "Export failed:",
                                   arg   |-> exc])
    /\ result' = "CANCELLED"
    /\ exc' = ""
    /\ pc' = "idle"
    /\ UNCHANGED << context, file, prevFile, locals >>

Next ==
    \/ Execute
    \/ Prepare
    \/ FaceBegin
    \/ Corner
    \/ FaceEnd
    \/ Assemble
    \/ WriteFile
    \/ OpenFails
    \/ DumpFails
    \/ ReportSuccess
    \/ ReportError

Spec == Init /\ [][Next]_vars

\* ------------------------------------------------------- shared vocabulary
Mesh == context.active_object.data

MatrixWorld == context.active_object.matrix_world

\* the documents at hand: the one being written and the one in the file
Docs == (IF buf_data.format = "buf" THEN {buf_data} ELSE {})
        \cup (IF file.kind = "doc" THEN {file.data} ELSE {})

RECURSIVE Flatten(_)
Flatten(ss) == IF ss = <<>> THEN <<>> ELSE Head(ss) \o Flatten(Tail(ss))

RECURSIVE SumLen(_)
SumLen(ss) == IF ss = <<>> THEN 0 ELSE Len(Head(ss)) + SumLen(Tail(ss))

Iota(n) == [i \in 1..n |-> i - 1]

LoopLists(faces) == [k \in 1..Len(faces) |-> faces[k].loops]

VertexLists(fd) == [k \in 1..Len(fd) |-> fd[k].vertices]

Triple(array, i) == << array[3 * i + 1], array[3 * i + 2], array[3 * i + 3] >>

AllTrisOrQuads == \A k \in 1..Len(Mesh.faces) : Len(Mesh.faces[k].loops) \in {3, 4}

HasNgon == \E k \in 1..Len(Mesh.faces) : Len(Mesh.faces[k].loops) >= 5

CornersOf(n) == { k \in 1..Len(Mesh.faces) : Len(Mesh.faces[k].loops) = n }

InvalidContext ==
    ~context.active_object.present \/ context.active_object.type # "MESH"

\* ------------------------------------------------------------------ claims

\* C1: the corner indices in the faces' vertices lists, read in output order,
\* are exactly 0, 1, ..., vertex_count-1; the same holds of the lists built so
\* far after every step of the traversal.
C1_IndicesPartition ==
    /\ \A d \in Docs :
          Flatten(VertexLists(d.faces)) = Iota(d.metadata.vertex_count)
    /\ pc \in {"faces", "loops"} =>
          Flatten(VertexLists(face_data))
             \o (IF pc = "loops" THEN face_verts ELSE <<>>)
          = Iota(vertex_index)

C1_Witness ==
    /\ buf_data.format = "buf"
    /\ Len(buf_data.faces) = 2
    /\ buf_data.metadata.vertex_count = 7
    /\ buf_data.faces[2].vertices = <<4, 5, 6>>

\* C2: the position and normal arrays hold 3 numbers per corner and the uv
\* array 2, after every iteration of the corner loop and in every document;
\* every attribute's count is metadata.vertex_count.
C2_ArrayLengths ==
    /\ Len(vertices) = 3 * vertex_index
    /\ Len(normals) = 3 * vertex_index
    /\ Len(uvs) = 2 * vertex_index
    /\ \A d \in Docs :
          /\ Len(d.attributes["position"].array) = 3 * d.metadata.vertex_count
          /\ Len(d.attributes["normal"].array) = 3 * d.metadata.vertex_count
          /\ "uv" \in DOMAIN d.attributes =>
                Len(d.attributes["uv"].array) = 2 * d.metadata.vertex_count
          /\ \A k \in DOMAIN d.attributes :
                d.attributes[k].count = d.metadata.vertex_count

C2_Witness ==
    /\ pc = "loops"
    /\ vertex_index = 5
    /\ ~bm.uv_active
    /\ Len(uvs) = 10

\* C3: a mesh without an active UV layer exports without a uv attribute.
C3_NoUVKeyWithoutLayer ==
    \A d \in Docs : ~Mesh.uv_active => "uv" \notin DOMAIN d.attributes

\* C4: with no active object, or an active object that is not a mesh, the
\* export raises before anything is produced: the file keeps the content it
\* had when execute was called and no working copy is built.
C4_InvalidSelectionNoOutput ==
    InvalidContext =>
        /\ file = prevFile
        /\ bm.state = "none"
        /\ buf_data = NoDoc
        /\ pc \in {"idle", "except"}
        /\ pc = "except" => exc = SelectMsg
        /\ result \in {"NONE", "CANCELLED"}

C4_Witness ==
    /\ context.active_object.present
    /\ context.active_object.type = "CAMERA"
    /\ result = "CANCELLED"
    /\ file = OldFile

\* C5: for a mesh of triangles and quads, quad_count and triangle_count count
\* the 4-corner and the 3-corner faces and add up to len(faces) = face_count;
\* a face record is a "quad" exactly when it holds 4 indices.
C5_Counts ==
    \A d \in Docs :
        /\ AllTrisOrQuads =>
              /\ d.metadata.quad_count = Cardinality(CornersOf(4))
              /\ d.metadata.triangle_count = Cardinality(CornersOf(3))
              /\ d.metadata.quad_count + d.metadata.triangle_count
                    = Len(d.faces)
              /\ Len(d.faces) = d.metadata.face_count
        /\ \A k \in 1..Len(d.faces) :
              /\ d.faces[k].type = "quad" <=> Len(d.faces[k].vertices) = 4
              /\ d.faces[k].type = "triangle" <=> Len(d.faces[k].vertices) # 4

C5_Witness ==
    /\ buf_data.format = "buf"
    /\ AllTrisOrQuads
    /\ buf_data.metadata.quad_count = 1
    /\ buf_data.metadata.triangle_count = 1
    /\ buf_data.faces[1].type = "triangle"

\* C6: all corners of a face carry that face's world normal, and the shading
\* label is "flat".
C6_FlatShading ==
    \A d \in Docs :
        /\ d.metadata.shading = "flat"
        /\ \A k \in 1..Len(d.faces) :
              \A j \in 1..Len(d.faces[k].vertices) :
                  Triple(d.attributes["normal"].array, d.faces[k].vertices[j])
                  = MatVec(Normalized(MatrixWorld.lin), Mesh.faces[k].normal)

C6_Witness ==
    /\ buf_data.format = "buf"
    /\ MatrixWorld = RotZScale
    /\ Len(buf_data.faces) = 2
    /\ Mesh.faces[1].normal = <<1, 0, 0>>
    /\ Mesh.faces[2].normal = <<0, 0, 1>>
    /\ Triple(buf_data.attributes["normal"].array, 0) = <<0, 1, 0>>

\* C7: vertex_count is the sum of the faces' corner counts (no vertex is
\* shared), and the position at corner index i is the world position of the
\* vertex of the i-th (face, loop) pair in face order, then loop order.
C7_FaceMajorNoDedup ==
    \A d \in Docs :
        LET corners == Flatten(LoopLists(Mesh.faces))
        IN  /\ d.metadata.vertex_count = SumLen(LoopLists(Mesh.faces))
            /\ \A i \in 1..Len(corners) :
                  Triple(d.attributes["position"].array, i - 1)
                  = VecAdd(MatVec(MatrixWorld.lin, corners[i].vert.co),
                           MatrixWorld.trans)

C7_Witness ==
    /\ buf_data.format = "buf"
    /\ Len(Mesh.faces) = 2
    /\ Len(Mesh.faces[1].loops) = 4
    /\ Len(Mesh.faces[2].loops) = 3
    /\ Mesh.faces[1].loops[3].vert = Mesh.faces[2].loops[1].vert
    /\ Mesh.faces[1].loops[4].vert = Mesh.faces[2].loops[2].vert
    /\ buf_data.metadata.vertex_count = 7

\* C8: a mesh with a face of 5 or more corners is rejected: no document is
\* produced for it and no face record holds more than 4 indices.
C8_NgonsRejected ==
    /\ HasNgon => Docs = {}
    /\ \A d \in Docs : \A k \in 1..Len(d.faces) : Len(d.faces[k].vertices) <= 4

\* C9: a successful export over the file that a successful export left
\* writes the same content again, and no step changes the scene.
C9_Idempotent ==
    /\ [](pc = "returned" /\ prevFile.kind = "doc" => file = prevFile)
    /\ [][context' = context]_vars

C9_Witness ==
    /\ pc = "returned"
    /\ prevFile.kind = "doc"
    /\ file = prevFile
    /\ file.data.metadata.vertex_count = 7

\* C10: execute ends with one INFO report and FINISHED when the export
\* returned, and with one ERROR report carrying the message and CANCELLED
\* when it raised; the handler leaves the file as the failure left it and
\* starts no second attempt.
C10_ExecuteOutcomes ==
    /\ [](/\ pc = "idle" /\ result # "NONE" =>
               \/ /\ result = "FINISHED"
                  /\ Len(reports) = 1
                  /\ reports[1].level = "INFO"
                  /\ reports[1].text = "Successfully exported to"
                  /\ file.kind = "doc"
               \/ /\ result = "CANCELLED"
                  /\ Len(reports) = 1
                  /\ reports[1].level = "ERROR"
                  /\ reports[1].text = "Export failed:"
                  /\ reports[1].arg \in {SelectMsg, IOMsg}
          /\ pc \in {"except", "returned"} => reports = <<>>)
    /\ [][pc = "except" =>
             /\ file' = file
             /\ pc' = "idle"
             /\ result' = "CANCELLED"
             /\ reports' = << [level |-> "ERROR", text |-> "Export failed:",
                               arg |-> exc] >>]_vars
    /\ [][pc = "returned" => file' = file /\ result' = "FINISHED"]_vars

C10_Witness ==
    /\ pc = "idle"
    /\ result = "CANCELLED"
    /\ file = Partial
    /\ reports[1].arg = IOMsg

====
